---- MODULE Spec2Model ----
(***************************************************************************)
(* Model of src/src/gmail_mcp_server/server.py: the GmailServer credential *)
(* lifecycle (load / refresh / interactive OAuth flow / save / build) and  *)
(* the two request handlers that use it, call_tool and read_resource.      *)
(*                                                                         *)
(* Every handler is one action.  No handler contains a real suspension     *)
(* point (ensure_authenticated and refresh_credentials are coroutines that *)
(* only make blocking calls), so a handler runs to completion once the     *)
(* event loop has started it.  What the outside world answers during a     *)
(* handler (token endpoint, OAuth flow, disk, mail provider) is an input   *)
(* of the action, drawn from the small sets below.                         *)
(*                                                                         *)
(* Spec is the server handling one request after the other.  SpecLife is   *)
(* the same with the history of failed runs and restarts kept in past.     *)
(* SpecTasks follows two requests in flight together as tasks of the event *)
(* loop, split where an awaited coroutine would suspend.                   *)
(***************************************************************************)
EXTENDS Integers, Sequences, FiniteSets, TLC

VARIABLES
    credentials,    \* self.credentials: None or a reference to a Credentials object
    gmail_service,  \* self.gmail_service: None or the Credentials object the client was built with
    heap,           \* the Credentials objects, by reference
    tokenFile,      \* content of TOKEN_FILE
    secretFile,     \* os.path.exists(CREDENTIALS_FILE)
    now,            \* the clock the expiry of a token is compared with
    last,           \* the handler run not yet delivered: its request, what it saw at entry, its events, its outcome
    past,           \* history: what the runs delivered so far and the last restart left behind
    tasks           \* the handler tasks of the event loop, where requests in flight together are followed

vars == <<credentials, gmail_service, heap, tokenFile, secretFile, now, last, past, tasks>>

----------------------------------------------------------------------------
(* Bounds *)

MaxTime == 2        \* the clock runs 0..MaxTime
MaxMsgs == 2        \* the provider lists at most this many messages
Lifetime == 1       \* a token issued at t expires at t + Lifetime

None == 0
ObjIds == 1..3
TokIds == 0..5
NoToken == -1

\* SCOPES (readonly + send) is "full"; a record of an older grant is "readonly".
SCOPES == "full"

NoCred == [token |-> NoToken, refresh_token |-> FALSE, expiry |-> 0,
           scopes |-> "none", granted |-> "none"]

NoFile == [kind |-> "absent", token |-> NoToken, rt |-> "missing", expiry |-> 0,
           scopes |-> "none", granted |-> "none"]

----------------------------------------------------------------------------
(* What the outside world can answer during one handler run *)

RefreshOutcomes == {"ok", "RefreshError", "TransportError"}  \* credentials.refresh(Request())
FlowOutcomes == {"ok", "ok_no_rt", "fail"}                   \* flow.run_local_server(port=0)
SaveOutcomes == {"ok", "unwritable", "truncated"}            \* makedirs/open/write of TOKEN_FILE

\* what create_message raises: AttributeError on a value that is no string,
\* HeaderParseError on a header value with an embedded header line,
\* UnicodeEncodeError on a string that cannot be encoded
CreateErrors == {"AttributeError", "HeaderParseError", "UnicodeEncodeError"}

CreateOutcomes == {"ok"} \cup CreateErrors                   \* create_message(...)

----------------------------------------------------------------------------
(* google.oauth2.credentials.Credentials, as the server uses it *)

\* Credentials.expired
Expired(c, t) == t >= c.expiry

\* Credentials.valid
Valid(c, t) == c.token # NoToken /\ ~Expired(c, t)

\* Credentials.from_authorized_user_info(token_data, SCOPES): the key
\* refresh_token must be present (ValueError otherwise); the scopes argument
\* replaces whatever scopes the record names.
from_authorized_user_info(file) ==
    IF file.rt = "missing"
    THEN NoCred
    ELSE [token |-> file.token, refresh_token |-> (file.rt = "present"),
          expiry |-> file.expiry, scopes |-> SCOPES, granted |-> file.granted]

\* credentials.to_json(): entries that are None are left out
to_json(c) ==
    [kind |-> "record", token |-> c.token,
     rt |-> IF c.refresh_token THEN "present" ELSE "missing",
     expiry |-> c.expiry, scopes |-> c.scopes, granted |-> c.granted]

----------------------------------------------------------------------------
(* The running handler: the server's fields, the token file, the events so  *)
(* far, the exception in flight and the outside answers consumed.           *)

Cred(st) == IF st.credentials = None THEN NoCred ELSE st.heap[st.credentials]

Bound(st) == IF st.gmail_service = None THEN NoCred ELSE st.heap[st.gmail_service]

\* One observable step of a handler, with what it could see at that moment.
Ev(st, name) ==
    [e |-> name, svc |-> st.gmail_service, cur |-> st.credentials,
     filed |-> (st.credentials # None /\ st.tokenFile = to_json(Cred(st))),
     granted |-> Bound(st).granted]

Log(st, name) == [st EXCEPT !.log = Append(@, Ev(st, name))]

Raise(st, name) == [st EXCEPT !.exc = name]

Use(st, f) == [st EXCEPT !.used = @ \cup {f}]

Live(st) == {st.credentials, st.gmail_service} \ {None}

FreshObj(st) == CHOOSE o \in ObjIds : o \notin Live(st) /\ \A p \in ObjIds : p < o => p \in Live(st)

\* the tokens issued so far that the state still names: those held when the
\* handler started (in an object, in the token file, or by the process that
\* was restarted) and those issued to the run since
UsedToks(st) == st.toks \cup {st.heap[o].token : o \in Live(st)} \cup {st.tokenFile.token}

FreshTok(st) == CHOOSE k \in TokIds : k \notin UsedToks(st) /\ \A j \in TokIds : j < k => j \in UsedToks(st)

\* self.credentials = <a new Credentials object c>
Assign(st, c) ==
    LET o == FreshObj(st)
    IN [st EXCEPT !.credentials = o, !.heap = [@ EXCEPT ![o] = c],
                  !.toks = @ \cup {c.token}]

----------------------------------------------------------------------------
(* GmailServer *)

\* "x = e; F(x)": e is evaluated once and F runs on its value.
Bind(e, F(_)) == CHOOSE r \in {F(x) : x \in {e}} : TRUE

\* load_saved_credentials: None when TOKEN_FILE does not exist, and None
\* (logged) when opening, parsing or from_authorized_user_info raises.
load_saved_credentials(file) ==
    IF file.kind = "absent" THEN NoCred
    ELSE IF file.kind # "record" THEN NoCred
    ELSE from_authorized_user_info(file)

\* A save_credentials that lets a failed write escape.
save_credentials_raising(st, c, f, w) ==
    IF w[f] = "ok"
    THEN Bind([Use(st, f) EXCEPT !.tokenFile = to_json(c)],
              LAMBDA s : Log(s, "save_ok"))
    ELSE Raise(Log(Use(st, f), "save_failed"), "OSError")

\* save_credentials: any exception is logged and swallowed.  open(.., 'w')
\* truncates, so a write that fails after it leaves an unparsable file.
save_credentials(st, c, f, w) ==
    CASE w[f] = "ok" ->
            Bind([Use(st, f) EXCEPT !.tokenFile = to_json(c)],
                 LAMBDA s : Log(s, "save_ok"))
      [] w[f] = "truncated" ->
            Bind([Use(st, f) EXCEPT !.tokenFile = [NoFile EXCEPT !.kind = "malformed"]],
                 LAMBDA s : Log(s, "save_failed"))
      [] OTHER -> Log(Use(st, f), "save_failed")

\* credentials.refresh(Request()) on the object in the slot, in place
refreshed(st, w) ==
    [st EXCEPT !.heap = [@ EXCEPT ![st.credentials] =
                            [@ EXCEPT !.token = FreshTok(st), !.expiry = w.now + Lifetime]],
               !.toks = @ \cup {FreshTok(st)}]

\* refresh_credentials: True after a refresh and a save, False without a
\* refresh token or on RefreshError; any other exception propagates.
refresh_credentials(st, rf, sf, w) ==
    IF st.credentials # None /\ Cred(st).refresh_token
    THEN Bind(Log(Log(Use(st, rf), "refresh_credentials"), "refresh"), LAMBDA s1 :
            CASE w[rf] = "ok" ->
                    Bind(Log(refreshed(s1, w), "refresh_ok"), LAMBDA s2 :
                        [save_credentials(s2, Cred(s2), sf, w) EXCEPT !.ret = TRUE])
              [] w[rf] = "RefreshError" -> [Log(s1, "refresh_rejected") EXCEPT !.ret = FALSE]
              [] OTHER -> Raise(s1, "TransportError"))
    ELSE [Log(st, "refresh_credentials") EXCEPT !.ret = FALSE]

\* A run_local_server whose result is put in the slot and never saved.
run_local_server_unsaved(st, w) ==
    IF w.fl = "fail"
    THEN Raise(st, "FlowError")
    ELSE Bind([token |-> FreshTok(st), refresh_token |-> (w.fl = "ok"),
               expiry |-> w.now + Lifetime, scopes |-> SCOPES, granted |-> "full"],
              LAMBDA c : Assign(st, c))

\* self.credentials = flow.run_local_server(port=0);
\* self.save_credentials(self.credentials)
run_local_server(st, w) ==
    IF w.fl = "fail"
    THEN Raise(st, "FlowError")
    ELSE Bind([token |-> FreshTok(st), refresh_token |-> (w.fl = "ok"),
               expiry |-> w.now + Lifetime, scopes |-> SCOPES, granted |-> "full"],
              LAMBDA c : Bind(Assign(st, c), LAMBDA s1 : save_credentials(s1, c, "s1", w)))

\* An oauth_flow that starts the flow without reading CREDENTIALS_FILE.
oauth_flow_unchecked(st, w) ==
    Bind(Log(Use(st, "fl"), "flow"), LAMBDA s0 : run_local_server(s0, w))

\* flow = InstalledAppFlow.from_client_secrets_file(CREDENTIALS_FILE, SCOPES),
\* then the two lines of run_local_server
oauth_flow(st, w) ==
    IF ~w.secret
    THEN Raise(st, "FileNotFoundError")
    ELSE Bind(Log(Use(st, "fl"), "flow"), LAMBDA s0 : run_local_server(s0, w))

\* A build that keeps the client it already has.
build_once(st) ==
    IF st.gmail_service = None
    THEN Log([st EXCEPT !.gmail_service = st.credentials], "build")
    ELSE Log(st, "build")

\* build('gmail', 'v1', credentials=self.credentials)
build(st) == Log([st EXCEPT !.gmail_service = st.credentials], "build")

\* ensure_authenticated, lines 326-327
load_if_empty(st) ==
    IF st.credentials = None
    THEN Bind(load_saved_credentials(st.tokenFile), LAMBDA c :
            IF c = NoCred THEN Log(st, "load")
            ELSE Bind(Assign(st, c), LAMBDA s : Log(s, "load")))
    ELSE st

\* A refresh_or_flow that starts the flow whatever refresh_credentials returned.
flow_after_any_refresh(st, w) ==
    Bind(refresh_credentials(st, "r1", "s1", w), LAMBDA r :
        IF r.exc # "none" THEN r ELSE oauth_flow(r, w))

\* A refresh_or_flow that goes on with the credential whose refresh was
\* rejected instead of starting the flow.
refresh_without_fallback(st, w) == refresh_credentials(st, "r1", "s1", w)

\* A refresh_or_flow that tries a rejected refresh once more before the flow.
refresh_twice_or_flow(st, w) ==
    Bind(refresh_credentials(st, "r1", "s1", w), LAMBDA r :
        IF r.exc # "none" \/ r.ret THEN r
        ELSE Bind(refresh_credentials(r, "r1", "s1", w), LAMBDA q :
                IF q.exc # "none" \/ q.ret THEN q ELSE oauth_flow(q, w)))

\* ensure_authenticated, lines 343-351
refresh_or_flow(st, w) ==
    Bind(refresh_credentials(st, "r1", "s1", w), LAMBDA r :
        IF r.exc # "none" THEN r
        ELSE IF ~r.ret THEN oauth_flow(r, w)
        ELSE r)

\* An obtain that does not look at credentials.valid.
obtain_ignoring_valid(st, w) ==
    IF st.credentials = None
    THEN IF ~w.secret THEN Raise(st, "ValueError") ELSE oauth_flow(st, w)
    ELSE IF Cred(st).refresh_token
    THEN refresh_or_flow(st, w)
    ELSE oauth_flow(st, w)

\* ensure_authenticated, lines 329-359
obtain(st, w) ==
    IF st.credentials = None
    THEN IF ~w.secret THEN Raise(st, "ValueError") ELSE oauth_flow(st, w)
    ELSE IF ~Valid(Cred(st), w.now)
    THEN IF Expired(Cred(st), w.now) /\ Cred(st).refresh_token
         THEN refresh_or_flow(st, w)
         ELSE oauth_flow(st, w)
    ELSE st

\* An ensure_authenticated whose load lets the error of an unreadable or
\* unparsable token file escape.
ensure_authenticated_load_raising(st, w) ==
    IF st.credentials = None /\ st.tokenFile.kind \in {"unreadable", "malformed"}
    THEN Raise(Log(st, "load"), "JSONDecodeError")
    ELSE Bind(load_if_empty(st), LAMBDA s0 :
            Bind(obtain(s0, w), LAMBDA s1 :
                IF s1.exc # "none" THEN s1 ELSE build(s1)))

\* ensure_authenticated, lines 322-362
ensure_authenticated(st, w) ==
    Bind(load_if_empty(st), LAMBDA s0 :
        Bind(obtain(s0, w), LAMBDA s1 :
            IF s1.exc # "none" THEN s1 ELSE build(s1)))

----------------------------------------------------------------------------
(* The request handlers *)

ToolNames == {"search_emails", "send_email", "list_emails"}

RecentUri == "gmail://inbox/recent"

Uris == {RecentUri, "gmail://inbox/other"}

\* arguments: whether it is a dict, and the keys it holds
ArgShapes ==
    { [isDict |-> FALSE, keys |-> {}],
      [isDict |-> TRUE, keys |-> {}],
      [isDict |-> TRUE, keys |-> {"query"}],
      [isDict |-> TRUE, keys |-> {"to", "subject"}],
      [isDict |-> TRUE, keys |-> {"to", "subject", "body"}] }

NoArgs == [isDict |-> FALSE, keys |-> {}]

\* .execute() raising: the provider answered with an error (or not at all)
http_error(st) == Raise(Log(st, "http_error"), "HttpError")

\* messages().get(...).execute() for each listed message, after a list that
\* returned w.ls messages; w.gf is the index of the first failing get (0: none)
get_each(st, w) ==
    IF w.ls = 0 \/ w.gf > w.ls THEN st
    ELSE Bind(Ev(st, "get"), LAMBDA ev :
            Bind([Use(st, "gf") EXCEPT
                    !.log = @ \o [i \in 1..(IF w.gf = 0 THEN w.ls ELSE w.gf) |-> ev]],
                 LAMBDA s1 : IF w.gf = 0 THEN s1 ELSE http_error(s1)))

\* messages().list(...).execute(), then the loop over its messages:
\* w.ls < 0 is a failing list, w.ls >= 0 the number of messages listed
list_and_get(st, w) ==
    Bind(Log(Use(st, "ls"), "list"), LAMBDA s0 :
        IF w.ls < 0 THEN http_error(s0) ELSE get_each(s0, w))

\* the search_emails branch of call_tool
search_emails(st, args, w) ==
    IF ~args.isDict \/ "query" \notin args.keys
    THEN Raise(st, "ValueError")
    ELSE list_and_get(st, w)

\* messages().send(...).execute()
send(st, w) ==
    Bind(Log(Use(st, "sd"), "send"), LAMBDA s :
        IF w.sd THEN s ELSE http_error(s))

\* message = create_message(...), which raises on values it cannot make a
\* message of (only the presence of the keys has been checked), then the send
create_and_send(st, w) ==
    IF w.cm # "ok" THEN Raise(Use(st, "cm"), w.cm) ELSE send(Use(st, "cm"), w)

\* A send_email without line 288.
send_email_without_refresh(st, args, w) ==
    IF ~args.isDict \/ ~({"to", "subject", "body"} \subseteq args.keys)
    THEN Raise(st, "ValueError")
    ELSE create_and_send(st, w)

\* A send_email that gives up when refresh_credentials returns False.
send_email_gated(st, args, w) ==
    IF ~args.isDict \/ ~({"to", "subject", "body"} \subseteq args.keys)
    THEN Raise(st, "ValueError")
    ELSE Bind(refresh_credentials(st, "r2", "s2", w), LAMBDA r :
            IF r.exc # "none" THEN r
            ELSE IF ~r.ret THEN Raise(r, "RuntimeError")
            ELSE create_and_send(r, w))

\* the send_email branch of call_tool
send_email(st, args, w) ==
    IF ~args.isDict \/ ~({"to", "subject", "body"} \subseteq args.keys)
    THEN Raise(st, "ValueError")
    ELSE Bind(refresh_credentials(st, "r2", "s2", w), LAMBDA r :
            IF r.exc # "none" THEN r ELSE create_and_send(r, w))

\* the except clause of call_tool, and its two return statements
returned(b) ==
    IF b.exc # "none"
    THEN [b EXCEPT !.result = "error_content", !.caught = b.exc, !.exc = "none"]
    ELSE [b EXCEPT !.result = "content"]

\* the try block of call_tool
tool_body(st, name, args, w) ==
    Bind(CASE name = "search_emails" -> search_emails(st, args, w)
           [] name = "send_email" -> send_email(st, args, w)
           [] OTHER -> Raise(st, "ValueError"),
         LAMBDA b : returned(b))

\* A call_tool that logs a failure of ensure_authenticated and goes on.
call_tool_past_auth_failure(st, name, args, w) ==
    Bind(ensure_authenticated(st, w), LAMBDA a :
        tool_body([a EXCEPT !.exc = "none"], name, args, w))

\* call_tool: ensure_authenticated is awaited before the try block
call_tool(st, name, args, w) ==
    Bind(ensure_authenticated(st, w), LAMBDA a :
        IF a.exc # "none"
        THEN [a EXCEPT !.result = "raised"]
        ELSE tool_body(a, name, args, w))

\* what read_resource does after ensure_authenticated
resource_body(st, uri, w) ==
    IF uri = RecentUri THEN list_and_get(st, w) ELSE Raise(st, "ValueError")

\* read_resource: nothing is caught
read_resource(st, uri, w) ==
    Bind(ensure_authenticated(st, w), LAMBDA a :
        Bind(IF a.exc # "none" THEN a ELSE resource_body(a, uri, w), LAMBDA b :
            IF b.exc # "none"
            THEN [b EXCEPT !.result = "raised"]
            ELSE [b EXCEPT !.result = "content"]))

----------------------------------------------------------------------------
(* State machine *)

FileRec(tok, rt, exp, sc) ==
    [kind |-> "record", token |-> tok, rt |-> rt, expiry |-> exp,
     scopes |-> sc, granted |-> sc]

\* What TOKEN_FILE can hold when the process starts.
InitialFiles ==
    { NoFile,
      [NoFile EXCEPT !.kind = "unreadable"],
      [NoFile EXCEPT !.kind = "malformed"],
      FileRec(0, "present", Lifetime, "full"),
      FileRec(0, "present", 0, "full"),
      FileRec(0, "present", Lifetime, "readonly"),
      FileRec(0, "null", 0, "full"),
      FileRec(0, "missing", Lifetime, "full"),
      FileRec(NoToken, "present", Lifetime, "full") }

NoRun ==
    [op |-> "none", name |-> "", args |-> NoArgs, log |-> <<>>,
     result |-> "none", exc |-> "none", caught |-> "none",
     pre |-> [credentials |-> None, gmail_service |-> None, cred |-> NoCred,
              tokenFile |-> NoFile, secret |-> FALSE, now |-> 0]]

\* No history is kept in a behaviour that starts with on = FALSE.
\*   failed:   ensure_authenticated raised in the run delivered last
\*   obtained: a refresh or a flow has succeeded since the process started
\*   crashed:  the credential such a process held when it was restarted, until
\*             the first handler run of the new process is delivered
NoPast == [on |-> FALSE, failed |-> FALSE, obtained |-> FALSE, crashed |-> NoCred]

\* The tasks the protocol layer starts for the requests it receives.
\*   pc:     idle, queued (request received), in_ensure (suspended at the
\*           await of line 343), in_send (suspended at the await of line
\*           288), done
\*   req:    the request the task's handler was called with
\*   lapsed: the shared credential was expired or absent when the request came
\*   seen:   what the check of the task's ensure_authenticated found
\*   at:     the clock at that check
\*   did:    which of refresh and flow its ensure_authenticated performed
\*   authed: its ensure_authenticated ran to its end
\*   sends:  its request is a send_email that passes the validation of line 284
\*   again:  its handler made the refresh of line 288
\* trace is the order in which the tasks' check-to-write sequences began
\* ("check") and ended ("end").
Tasks == {1, 2}

NoReq == [op |-> "none", name |-> "", args |-> NoArgs]

IdleTask ==
    [pc |-> "idle", req |-> NoReq, lapsed |-> FALSE, seen |-> "none", at |-> 0,
     did |-> {}, authed |-> FALSE, sends |-> FALSE, again |-> FALSE]

NoTasks == [of |-> [t \in Tasks |-> IdleTask], trace |-> <<>>]

\* GmailServer.__init__
Init ==
    /\ credentials = None
    /\ gmail_service = None
    /\ heap = [o \in ObjIds |-> NoCred]
    /\ tokenFile \in InitialFiles
    /\ secretFile \in BOOLEAN
    /\ now = 0
    /\ last = NoRun
    /\ past = NoPast
    /\ tasks = NoTasks

\* The token files the history is kept from: none, a valid record and an
\* expired one; the others arise from these as the server saves.
LifeFiles ==
    { NoFile,
      FileRec(0, "present", Lifetime, "full"),
      FileRec(0, "present", 0, "full") }

\* GmailServer.__init__, with the history kept
InitLife ==
    /\ credentials = None
    /\ gmail_service = None
    /\ heap = [o \in ObjIds |-> NoCred]
    /\ tokenFile \in LifeFiles
    /\ secretFile \in BOOLEAN
    /\ now = 0
    /\ last = NoRun
    /\ past = [NoPast EXCEPT !.on = TRUE]
    /\ tasks = NoTasks

Default ==
    [r1 |-> "ok", fl |-> "ok", s1 |-> "ok", r2 |-> "ok", s2 |-> "ok",
     ls |-> 0, gf |-> 0, cm |-> "ok", sd |-> TRUE]

Answers == DOMAIN Default

World(r1, fl, s1, r2, s2, ls, gf, cm, sd) ==
    [now |-> now, secret |-> secretFile,
     r1 |-> r1, fl |-> fl, s1 |-> s1, r2 |-> r2, s2 |-> s2,
     ls |-> ls, gf |-> gf, cm |-> cm, sd |-> sd]

\* An answer the handler never asked for is left at its default.
Canonical(st, w) == \A f \in Answers \ st.used : w[f] = Default[f]

Start ==
    [credentials |-> credentials, gmail_service |-> gmail_service, heap |-> heap,
     tokenFile |-> tokenFile, log |-> <<>>, exc |-> "none", caught |-> "none",
     used |-> {}, ret |-> FALSE, result |-> "none",
     toks |-> {heap[o].token : o \in {credentials, gmail_service} \ {None}}
                \cup {tokenFile.token, past.crashed.token}]

\* Objects no field refers to any more are dropped, and the ones left are
\* numbered from 1 (the slot's object first).
Renumber(r, x) ==
    IF x = None THEN None
    ELSE IF x = r.credentials THEN 1
    ELSE IF r.credentials = None THEN 1
    ELSE 2

Commit(op, name, args, st, r) ==
    /\ credentials' = Renumber(r, r.credentials)
    /\ gmail_service' = Renumber(r, r.gmail_service)
    /\ heap' = [o \in ObjIds |->
                    IF \E x \in Live(r) : Renumber(r, x) = o
                    THEN r.heap[CHOOSE x \in Live(r) : Renumber(r, x) = o]
                    ELSE NoCred]
    /\ tokenFile' = r.tokenFile
    /\ last' = [op |-> op, name |-> name, args |-> args, log |-> r.log,
                result |-> r.result, exc |-> r.exc, caught |-> r.caught,
                pre |-> [credentials |-> credentials, gmail_service |-> gmail_service,
                         cred |-> Cred(st), tokenFile |-> tokenFile,
                         secret |-> secretFile, now |-> now]]
    /\ UNCHANGED <<secretFile, now, past, tasks>>

CallTool ==
    /\ last.op = "none"
    /\ \E name \in ToolNames, args \in ArgShapes, st \in {Start} :
       \E r1 \in RefreshOutcomes, fl \in FlowOutcomes, s1 \in SaveOutcomes :
       \E wa \in {World(r1, fl, s1, Default.r2, Default.s2, Default.ls, Default.gf, Default.cm, Default.sd)} :
       \E a \in {ensure_authenticated(st, wa)} :
           /\ Canonical(a, wa)
           /\ \E r2 \in (IF name = "send_email" THEN RefreshOutcomes ELSE {Default.r2}),
                 s2 \in (IF name = "send_email" THEN SaveOutcomes ELSE {Default.s2}),
                 cm \in (IF name = "send_email" THEN CreateOutcomes ELSE {Default.cm}),
                 sd \in (IF name = "send_email" THEN BOOLEAN ELSE {Default.sd}),
                 ls \in (IF name = "search_emails" THEN -1..MaxMsgs ELSE {Default.ls}),
                 gf \in (IF name = "search_emails" THEN 0..MaxMsgs ELSE {Default.gf}) :
              \E w \in {World(r1, fl, s1, r2, s2, ls, gf, cm, sd)} :
              \E r \in {call_tool(st, name, args, w)} :
                  Canonical(r, w) /\ Commit("call_tool", name, args, st, r)

ReadResource ==
    /\ last.op = "none"
    /\ \E uri \in Uris, st \in {Start} :
       \E r1 \in RefreshOutcomes, fl \in FlowOutcomes, s1 \in SaveOutcomes :
       \E wa \in {World(r1, fl, s1, Default.r2, Default.s2, Default.ls, Default.gf, Default.cm, Default.sd)} :
       \E a \in {ensure_authenticated(st, wa)} :
           /\ Canonical(a, wa)
           /\ \E ls \in -1..MaxMsgs, gf \in 0..MaxMsgs :
              \E w \in {World(r1, fl, s1, Default.r2, Default.s2, ls, gf, Default.cm, Default.sd)} :
              \E r \in {read_resource(st, uri, w)} :
                  Canonical(r, w) /\ Commit("read_resource", uri, NoArgs, st, r)

----------------------------------------------------------------------------
(* Reading the run that has just ended *)

Ran == last.op # "none"

Idx == DOMAIN last.log

At(e) == {i \in Idx : last.log[i].e = e}

Has(e) == At(e) # {}

Provider == {"list", "get", "send"}

ProviderCalls == {i \in Idx : last.log[i].e \in Provider}

\* ensure_authenticated ran to its end (its last statement is the build)
Authenticated == Has("build")

\* the events of ensure_authenticated: every handler starts with it, and
\* nothing follows it in a handler it raised in
AuthIdx == IF Authenticated THEN {i \in Idx : \A b \in At("build") : i <= b} ELSE Idx

\* the credential ensure_authenticated works on once line 327 has run
EntryCred ==
    IF last.pre.credentials # None THEN last.pre.cred
    ELSE load_saved_credentials(last.pre.tokenFile)

\* a refresh has succeeded in the run, or a flow has returned a credential
Obtained ==
    \/ Has("refresh_ok")
    \/ \E f \in At("flow") : f < Len(last.log)

\* the request fails call_tool's validation
Malformed(name, args) ==
    \/ name \notin {"search_emails", "send_email"}
    \/ ~args.isDict
    \/ name = "search_emails" /\ "query" \notin args.keys
    \/ name = "send_email" /\ ~({"to", "subject", "body"} \subseteq args.keys)

----------------------------------------------------------------------------
(* The steps between handler runs *)

\* time passes
Tick ==
    /\ last.op = "none"
    /\ now < MaxTime
    /\ now' = now + 1
    /\ UNCHANGED <<credentials, gmail_service, heap, tokenFile, secretFile, last, past, tasks>>

\* the operator installs or removes the client-secret file
SetSecret ==
    /\ last.op = "none"
    /\ secretFile' = ~secretFile
    /\ UNCHANGED <<credentials, gmail_service, heap, tokenFile, now, last, past, tasks>>

\* the process is restarted: GmailServer.__init__ runs again
Restart ==
    /\ last.op = "none"
    /\ credentials # None
    /\ credentials' = None
    /\ gmail_service' = None
    /\ heap' = [o \in ObjIds |-> NoCred]
    /\ past' = IF past.on
               THEN [past EXCEPT !.failed = FALSE, !.obtained = FALSE,
                                 !.crashed = IF past.obtained THEN heap[credentials]
                                             ELSE NoCred]
               ELSE past
    /\ UNCHANGED <<tokenFile, secretFile, now, last, tasks>>

\* the handler's result (or the exception it let escape) is handed to the
\* protocol layer, which then takes the next request
Deliver ==
    /\ last.op # "none"
    /\ last' = NoRun
    /\ past' = IF past.on
               THEN [past EXCEPT !.failed = ~Authenticated,
                                 !.obtained = @ \/ Obtained,
                                 !.crashed = NoCred]
               ELSE past
    /\ UNCHANGED <<credentials, gmail_service, heap, tokenFile, secretFile, now, tasks>>

Next == CallTool \/ ReadResource \/ Deliver \/ Tick \/ SetSecret \/ Restart

Spec == Init /\ [][Next]_vars

\* the same server, with the history of its runs and restarts kept
SpecLife == InitLife /\ [][Next]_vars

----------------------------------------------------------------------------
(* Requests in flight together.  The protocol layer starts one task per     *)
(* request on a single event loop; a task keeps the loop until it awaits    *)
(* something that suspends.  The handlers await at lines 148 and 243        *)
(* (ensure_authenticated), 343 and 288 (refresh_credentials).  SpecTasks    *)
(* follows the requests that reach a newly constructed server together.     *)

\* A refresh_credentials that hands credentials.refresh to a worker thread
\* and awaits it.
AwaitsThreadedRefresh ==
    [call_tool |-> {"ensure_authenticated", "refresh_credentials"},
     read_resource |-> {"ensure_authenticated"},
     ensure_authenticated |-> {"refresh_credentials"},
     refresh_credentials |-> {"to_thread"}]

\* What each coroutine awaits: every await of the handlers is on another
\* coroutine of GmailServer, and refresh_credentials awaits nothing (its
\* refresh and its save, like the flow and the provider calls, are blocking
\* calls).
Awaits ==
    [call_tool |-> {"ensure_authenticated", "refresh_credentials"},
     read_resource |-> {"ensure_authenticated"},
     ensure_authenticated |-> {"refresh_credentials"},
     refresh_credentials |-> {}]

\* Awaiting c gives the loop to other tasks before c returns: c is no
\* coroutine of GmailServer, or something it awaits does so.
RECURSIVE Suspends(_)
Suspends(c) == c \notin DOMAIN Awaits \/ \E a \in Awaits[c] : Suspends(a)

\* the credential the next check will find: the slot's, or the token file's
Shared ==
    IF credentials # None THEN heap[credentials]
    ELSE load_saved_credentials(tokenFile)

\* what the check at lines 329 and 340 finds
Seen(st, w) ==
    IF st.credentials = None THEN "absent"
    ELSE IF Valid(Cred(st), w.now) THEN "valid"
    ELSE "expired"

\* the check leads to the await of line 343
WillRefresh(st, w) ==
    /\ st.credentials # None
    /\ ~Valid(Cred(st), w.now)
    /\ Expired(Cred(st), w.now)
    /\ Cred(st).refresh_token

\* the events of a log that belong to ensure_authenticated
UpToBuild(log) ==
    {i \in DOMAIN log : \A b \in DOMAIN log : log[b].e = "build" => i <= b}

\* which of refresh and flow the ensure_authenticated of a log performed
Did(log) == {log[i].e : i \in UpToBuild(log)} \cap {"refresh", "flow"}

Built(log) == \E b \in DOMAIN log : log[b].e = "build"

\* the log holds a refresh made after ensure_authenticated: that of line 288
Again(log) == \E i \in DOMAIN log \ UpToBuild(log) : log[i].e = "refresh"

\* the requests a task can carry: those of CallTool and of ReadResource
Requests ==
    {[op |-> "call_tool", name |-> n, args |-> a] : n \in ToolNames, a \in ArgShapes}
        \cup {[op |-> "read_resource", name |-> u, args |-> NoArgs] : u \in Uris}

IsSend(req) == req.op = "call_tool" /\ req.name = "send_email"

\* the handler reaches the list call of line 151 or of line 250
Lists(req) ==
    \/ req.op = "call_tool" /\ req.name = "search_emails" /\ ~Malformed(req.name, req.args)
    \/ req.op = "read_resource" /\ req.name = RecentUri

\* the handler reaches the await of line 288
ReachesSendRefresh(req) == IsSend(req) /\ ~Malformed(req.name, req.args)

\* ensure_authenticated from line 343 on
rest_of_ensure(st, w) ==
    Bind(refresh_or_flow(st, w), LAMBDA s1 :
        IF s1.exc # "none" THEN s1 ELSE build(s1))

\* a handler from the return of ensure_authenticated on
after_ensure(a, req, w) ==
    IF a.exc # "none" THEN [a EXCEPT !.result = "raised"]
    ELSE IF req.op = "call_tool" THEN tool_body(a, req.name, req.args, w)
    ELSE Bind(resource_body(a, req.name, w), LAMBDA b :
            IF b.exc # "none"
            THEN [b EXCEPT !.result = "raised"]
            ELSE [b EXCEPT !.result = "content"])

\* send_email from line 288 on
from_send_refresh(st, w) ==
    Bind(Bind(refresh_credentials(st, "r2", "s2", w), LAMBDA r :
            IF r.exc # "none" THEN r ELSE create_and_send(r, w)),
         LAMBDA b : returned(b))

\* What one turn of a task on the loop did: the handler state it ends in,
\* where the task stands, and whether the turn held the check and the end of
\* its ensure_authenticated.
Turn(st, pc, seen, checked, ended) ==
    [st |-> st, pc |-> pc, seen |-> seen, checked |-> checked, ended |-> ended]

\* a task's turn: the handler runs from where it stands to its next await
\* that suspends, or to its return
Segment(pc, st, req, w) ==
    IF pc = "in_send"
    THEN Turn(from_send_refresh(st, w), "done", "none", FALSE, FALSE)
    ELSE IF pc = "in_ensure"
    THEN Bind(rest_of_ensure(st, w), LAMBDA a :
            IF a.exc = "none" /\ ReachesSendRefresh(req) /\ Suspends("refresh_credentials")
            THEN Turn(a, "in_send", "none", FALSE, TRUE)
            ELSE Turn(after_ensure(a, req, w), "done", "none", FALSE, TRUE))
    ELSE Bind(load_if_empty(st), LAMBDA s0 :
            IF WillRefresh(s0, w) /\ Suspends("refresh_credentials")
            THEN Turn(s0, "in_ensure", Seen(s0, w), TRUE, FALSE)
            ELSE Bind(ensure_authenticated(st, w), LAMBDA a :
                    IF a.exc = "none" /\ ReachesSendRefresh(req)
                          /\ Suspends("refresh_credentials")
                    THEN Turn(a, "in_send", Seen(s0, w), TRUE, TRUE)
                    ELSE Turn(after_ensure(a, req, w), "done", Seen(s0, w), TRUE, TRUE)))

\* the server's fields and the token file as the task leaves them
Store(r) ==
    /\ credentials' = Renumber(r, r.credentials)
    /\ gmail_service' = Renumber(r, r.gmail_service)
    /\ heap' = [o \in ObjIds |->
                    IF \E x \in Live(r) : Renumber(r, x) = o
                    THEN r.heap[CHOOSE x \in Live(r) : Renumber(r, x) = o]
                    ELSE NoCred]
    /\ tokenFile' = r.tokenFile

Mark(t, e) == [t |-> t, e |-> e]

\* the task after a turn g that started at pc
Moved(task, g) ==
    [task EXCEPT !.pc = g.pc,
                 !.req = IF g.pc = "done" THEN NoReq ELSE @,
                 !.seen = IF g.checked THEN g.seen ELSE @,
                 !.at = IF g.checked THEN now ELSE @,
                 !.did = IF task.pc = "in_send" THEN @ ELSE @ \cup Did(g.st.log),
                 !.authed = IF g.ended THEN Built(g.st.log) ELSE @,
                 !.sends = ReachesSendRefresh(task.req),
                 !.again = IF task.pc = "in_send"
                           THEN \E i \in DOMAIN g.st.log : g.st.log[i].e = "refresh"
                           ELSE Again(g.st.log)]

Marks(t, g) ==
    (IF g.checked THEN <<Mark(t, "check")>> ELSE <<>>)
        \o (IF g.ended THEN <<Mark(t, "end")>> ELSE <<>>)

\* a request arrives before any task has had its turn
Arrive(t) ==
    /\ \A u \in Tasks : tasks.of[u].pc \in {"idle", "queued"}
    /\ tasks.of[t].pc = "idle"
    /\ tasks' = [tasks EXCEPT !.of[t] =
                    [IdleTask EXCEPT !.pc = "queued", !.lapsed = ~Valid(Shared, now)]]
    /\ UNCHANGED <<credentials, gmail_service, heap, tokenFile, secretFile, now, last, past>>

\* the part of a turn that belongs to ensure_authenticated
AuthPart(pc, st, w) ==
    IF pc = "queued" THEN ensure_authenticated(st, w)
    ELSE IF pc = "in_ensure" THEN rest_of_ensure(st, w)
    ELSE st

\* The event loop gives task t a turn.  The handler reads its request at its
\* first turn; a task that was suspended goes on with the request it has.
Run(t) ==
    /\ tasks.of[t].pc \in {"queued", "in_ensure", "in_send"}
    /\ \E req \in (IF tasks.of[t].pc = "queued" THEN Requests ELSE {tasks.of[t].req}),
          st \in {Start} :
       \E r1 \in RefreshOutcomes, fl \in FlowOutcomes, s1 \in SaveOutcomes :
       \E wa \in {World(r1, fl, s1, Default.r2, Default.s2, Default.ls, Default.gf, Default.cm, Default.sd)} :
       \E a \in {AuthPart(tasks.of[t].pc, st, wa)} :
           /\ Canonical(a, wa)
           /\ \E r2 \in (IF ReachesSendRefresh(req) THEN RefreshOutcomes ELSE {Default.r2}),
                 s2 \in (IF ReachesSendRefresh(req) THEN SaveOutcomes ELSE {Default.s2}),
                 cm \in (IF ReachesSendRefresh(req) THEN CreateOutcomes ELSE {Default.cm}),
                 sd \in (IF ReachesSendRefresh(req) THEN BOOLEAN ELSE {Default.sd}),
                 ls \in (IF Lists(req) THEN -1..MaxMsgs ELSE {Default.ls}),
                 gf \in (IF Lists(req) THEN 0..MaxMsgs ELSE {Default.gf}) :
              \E w \in {World(r1, fl, s1, r2, s2, ls, gf, cm, sd)} :
              \E g \in {Segment(tasks.of[t].pc, st, req, w)} :
                  /\ Canonical(g.st, w)
                  /\ Store(g.st)
                  /\ tasks' = [tasks EXCEPT !.of[t] = Moved([@ EXCEPT !.req = req], g),
                                            !.trace = @ \o Marks(t, g)]
    /\ UNCHANGED <<secretFile, now, last, past>>

NextTasks ==
    \/ \E t \in Tasks : Arrive(t)
    \/ \E t \in Tasks : Run(t)
    \/ Tick

SpecTasks == Init /\ [][NextTasks]_vars

----------------------------------------------------------------------------
(* Claims *)

\* C1. Credential reuse: when ensure_authenticated starts with a valid
\* (unexpired) credential, in the slot or loaded from the token file because
\* the slot is empty, it runs to its end without calling refresh_credentials
\* and without running the OAuth flow.
C1_CredentialReuse ==
    (Ran /\ EntryCred # NoCred /\ Valid(EntryCred, last.pre.now))
        => /\ Authenticated
           /\ \A i \in AuthIdx :
                 last.log[i].e \notin {"refresh_credentials", "refresh", "flow"}

\* a handler that found the slot empty and a valid credential in the token file
C1_Witness ==
    /\ Ran
    /\ last.pre.credentials = None
    /\ EntryCred # NoCred
    /\ Valid(EntryCred, last.pre.now)
    /\ Has("load")
    /\ Authenticated

\* C2. Refresh preferred over reauthorization: when ensure_authenticated starts
\* with an expired credential that holds a refresh token, it attempts a
\* refresh, and it invokes the OAuth flow only after that refresh was rejected.
C2_RefreshPreferred ==
    (Ran /\ EntryCred # NoCred /\ Expired(EntryCred, last.pre.now)
         /\ EntryCred.refresh_token)
        => /\ \E j \in AuthIdx : last.log[j].e = "refresh"
           /\ \A i \in AuthIdx :
                 last.log[i].e = "flow"
                    => /\ \E j \in AuthIdx : j < i /\ last.log[j].e = "refresh_rejected"
                       /\ \A k \in AuthIdx : last.log[k].e # "refresh_ok"

\* an expired refreshable credential whose refresh was rejected, then the flow
C2_Witness ==
    /\ Ran
    /\ EntryCred # NoCred
    /\ Expired(EntryCred, last.pre.now)
    /\ EntryCred.refresh_token
    /\ \E i \in AuthIdx, j \in AuthIdx :
          j < i /\ last.log[j].e = "refresh_rejected" /\ last.log[i].e = "flow"

\* C3. Scope mismatch forces reauthorization: a token record issued for
\* another scope set than SCOPES is treated as absent by the load path, so
\* ensure_authenticated completes only through the OAuth flow and no provider
\* call is made with a credential granted less than SCOPES.
C3_ScopeMismatchReauthorizes ==
    (Ran /\ last.pre.credentials = None /\ last.pre.tokenFile.kind = "record"
         /\ last.pre.tokenFile.scopes # SCOPES)
        => /\ load_saved_credentials(last.pre.tokenFile) = NoCred
           /\ Authenticated => Has("flow")
           /\ \A i \in ProviderCalls : last.log[i].granted = "full"

\* C4. Dispatcher never raises: whatever fails during call_tool, it returns
\* text content and lets no exception escape.
C4_DispatcherNeverRaises ==
    last.op = "call_tool" => last.result \in {"content", "error_content"}

\* C5. Authentication precedes every provider call: a provider call is issued
\* only after ensure_authenticated has completed in the same handler run, and
\* a run whose ensure_authenticated failed issues none.
C5_AuthPrecedesProvider ==
    Ran => /\ \A i \in ProviderCalls : \E b \in At("build") : b < i
           /\ ~Authenticated => ProviderCalls = {}

\* a run that had to authorize and then fetched a listed message
C5_Witness == Ran /\ Has("flow") /\ Has("get")

\* C6. Malformed requests produce error content with zero provider calls:
\* unknown tool name, arguments that are no dict, or a missing required key.
C6_MalformedGivesErrorContent ==
    (last.op = "call_tool" /\ Malformed(last.name, last.args))
        => last.result = "error_content" /\ ProviderCalls = {}

\* C7. Validation failures never reach the gateway: a malformed call_tool
\* request leaves the slot, the client and the token file as they were and
\* triggers no load, refresh or OAuth flow.
C7_ValidationShortCircuits ==
    (last.op = "call_tool" /\ Malformed(last.name, last.args))
        => /\ credentials = last.pre.credentials
           /\ gmail_service = last.pre.gmail_service
           /\ (IF credentials = None THEN NoCred ELSE heap[credentials]) = last.pre.cred
           /\ tokenFile = last.pre.tokenFile
           /\ \A i \in Idx :
                 last.log[i].e \notin {"load", "refresh_credentials", "refresh", "flow"}

\* C8 as claimed. Fallback after rejected refresh: when the refresh in
\* ensure_authenticated is rejected, the OAuth flow is invoked exactly once in
\* that call and the credential it returns is in the token file before any
\* provider call of the run.
C8_FallbackPersisted ==
    (Ran /\ \E j \in AuthIdx : last.log[j].e = "refresh_rejected")
        => /\ Cardinality(At("flow")) = 1
           /\ \A i \in ProviderCalls : \E f \in At("flow") :
                 /\ f + 1 < i
                 /\ last.log[f + 1].e = "save_ok"
                 /\ last.log[f + 1].filed

\* C8 as amended. When the refresh in ensure_authenticated is rejected, the
\* OAuth flow is invoked once if the client-secret file exists and not at all
\* otherwise, and save_credentials runs on the credential the flow returns
\* before any provider call of the run: the token file then holds it, unless
\* the write failed.
C8_FallbackSaved ==
    (Ran /\ \E j \in AuthIdx : last.log[j].e = "refresh_rejected")
        => /\ Cardinality(At("flow")) = (IF last.pre.secret THEN 1 ELSE 0)
           /\ \A i \in ProviderCalls : \E f \in At("flow") :
                 /\ f + 1 < i
                 /\ \/ last.log[f + 1].e = "save_ok" /\ last.log[f + 1].filed
                    \/ last.log[f + 1].e = "save_failed"

\* a rejected refresh, one flow, its credential written, then a provider call
C8_Witness ==
    /\ Ran
    /\ \E j \in AuthIdx : last.log[j].e = "refresh_rejected"
    /\ \E f \in At("flow"), i \in ProviderCalls :
          f + 1 < i /\ last.log[f + 1].e = "save_ok" /\ last.log[f + 1].filed

\* C9. Send always attempts a refresh first: in a send_email run with valid
\* arguments whose ensure_authenticated completed, refresh_credentials is
\* called after it and before the provider send call, and no send call is
\* issued without such a call before it in the same run.
C9_SendRefreshesFirst ==
    /\ (last.op = "call_tool" /\ last.name = "send_email"
            /\ ~Malformed(last.name, last.args) /\ Authenticated)
        => \E j \in At("refresh_credentials") :
              /\ \A b \in At("build") : b < j
              /\ \A i \in At("send") : j < i
    /\ Ran => \A i \in At("send") : \E j \in At("refresh_credentials"), b \in At("build") :
                 b < j /\ j < i

\* a send_email run that started with a valid credential and reached the send
C9_Witness ==
    /\ last.op = "call_tool"
    /\ last.name = "send_email"
    /\ EntryCred # NoCred
    /\ Valid(EntryCred, last.pre.now)
    /\ Has("send")

\* C10. Client is never stale: at every provider call the client in
\* gmail_service is bound to the Credentials object then in the slot.
C10_ClientNeverStale ==
    Ran => \A i \in ProviderCalls :
              last.log[i].svc # None /\ last.log[i].svc = last.log[i].cur

\* a run that found a client in place, replaced the credential through the
\* flow and then called the provider
C10_Witness ==
    /\ Ran
    /\ last.pre.gmail_service # None
    /\ Has("flow")
    /\ ProviderCalls # {}

\* C12. Refresh failure discards the credential: when the refresh inside
\* ensure_authenticated is rejected, the slot is emptied before the OAuth flow
\* is attempted, so once the call has ended, with the flow succeeding or not,
\* the slot does not hold the credential whose refresh was rejected.
C12_RejectedCredentialDiscarded ==
    (Ran /\ \E j \in AuthIdx : last.log[j].e = "refresh_rejected")
        => /\ \A i \in AuthIdx : last.log[i].e = "flow" => last.log[i].cur = None
           /\ (credentials = None \/ heap[credentials] # EntryCred)

\* the run in which a provider call failed
ProviderFailed == Has("http_error")

\* C14. Provider errors are wrapped and never retried: in every
\* operation the first failing provider call ends the operation with a
\* returned error result that carries the provider's message; the call is not
\* issued again and no provider call follows it.
C14_ProviderErrorReturned ==
    (Ran /\ ProviderFailed)
        => /\ last.result = "error_content"
           /\ last.caught = "HttpError"
           /\ Cardinality(At("http_error")) = 1
           /\ \A i \in At("http_error") :
                 i = Len(last.log) /\ i - 1 \in ProviderCalls

\* the paths of ensure_authenticated that lead to the OAuth flow: nothing in
\* the slot after the load, a refresh that was rejected, or a credential that
\* is not valid and cannot be refreshed
NeedsAuthorization ==
    \/ EntryCred = NoCred
    \/ \E j \in AuthIdx : last.log[j].e = "refresh_rejected"
    \/ /\ ~Valid(EntryCred, last.pre.now)
       /\ ~(Expired(EntryCred, last.pre.now) /\ EntryCred.refresh_token)

\* C16. A missing client-secret file shows only where authorization is
\* needed: without the file, a handler whose credential is valid or is
\* refreshed completes ensure_authenticated, and a handler on any path to the
\* OAuth flow fails with a configuration error (ValueError of line 332 or the
\* FileNotFoundError of from_client_secrets_file), without a provider call;
\* the flow is never started.
C16_MissingSecretOnlyAtAuthorization ==
    (Ran /\ ~last.pre.secret)
        => /\ ~Has("flow")
           /\ (Valid(EntryCred, last.pre.now)
                 \/ \E j \in AuthIdx : last.log[j].e = "refresh_ok")
                => Authenticated
           /\ NeedsAuthorization
                => /\ last.result = "raised"
                   /\ last.exc \in {"ValueError", "FileNotFoundError"}
                   /\ ProviderCalls = {}

\* without the file: a handler whose refresh was rejected fails before the
\* flow could start
C16_Witness ==
    /\ Ran
    /\ ~last.pre.secret
    /\ \E j \in AuthIdx : last.log[j].e = "refresh_rejected"
    /\ last.exc = "FileNotFoundError"
    /\ ~Has("flow")

\* the token file holds nothing load_saved_credentials can make a credential of
Unloadable(file) == file.kind # "record" \/ file.rt = "missing"

\* C17 as claimed. Load fails soft: with the slot empty and a token file that
\* is missing, unreadable or unparsable, load_saved_credentials returns None
\* without raising, and ensure_authenticated goes on to the OAuth flow.
C17_LoadFailsSoftThenFlow ==
    (Ran /\ last.pre.credentials = None /\ Unloadable(last.pre.tokenFile))
        => /\ load_saved_credentials(last.pre.tokenFile) = NoCred
           /\ Len(last.log) >= 2
           /\ last.log[1].e = "load" /\ last.log[1].cur = None
           /\ last.log[2].e = "flow"
           /\ Len(last.log) >= 3 => Authenticated

\* C17 as amended. With the slot empty and a token file that is missing,
\* unreadable or unparsable, load_saved_credentials returns None without
\* raising, and ensure_authenticated enters the authorization branch: it
\* starts the OAuth flow when the client-secret file exists (and completes
\* when the flow returns), and raises the ValueError of line 332 otherwise.
C17_LoadFailsSoft ==
    (Ran /\ last.pre.credentials = None /\ Unloadable(last.pre.tokenFile))
        => /\ load_saved_credentials(last.pre.tokenFile) = NoCred
           /\ Len(last.log) >= 1
           /\ last.log[1].e = "load" /\ last.log[1].cur = None
           /\ last.pre.secret
                => /\ Len(last.log) >= 2
                   /\ last.log[2].e = "flow"
                   /\ Len(last.log) >= 3 => Authenticated
           /\ ~last.pre.secret
                => Len(last.log) = 1 /\ last.exc = "ValueError"

\* an unparsable token file, then the flow, then the messages are read
C17_Witness ==
    /\ Ran
    /\ last.pre.credentials = None
    /\ last.pre.tokenFile.kind = "malformed"
    /\ Has("flow")
    /\ Has("get")

\* C18. Bounded attempts: one call of ensure_authenticated refreshes the
\* credential at most once and starts the OAuth flow at most once.
C18_BoundedAttempts ==
    Ran => /\ Cardinality({i \in AuthIdx : last.log[i].e = "refresh"}) <= 1
           /\ Cardinality({i \in AuthIdx : last.log[i].e = "flow"}) <= 1

\* a send_email run whose ensure_authenticated made its one refresh and its
\* one flow, and whose send step then refreshed again
C18_Witness ==
    /\ last.op = "call_tool"
    /\ last.name = "send_email"
    /\ Cardinality({i \in AuthIdx : last.log[i].e = "refresh"}) = 1
    /\ Cardinality({i \in AuthIdx : last.log[i].e = "flow"}) = 1
    /\ Cardinality(At("refresh")) = 2

\* the run's request is one whose handler calls the provider first thing
\* after ensure_authenticated
ReadsMail ==
    \/ last.op = "read_resource" /\ last.name = RecentUri
    \/ /\ last.op = "call_tool" /\ last.name = "search_emails"
       /\ ~Malformed(last.name, last.args)

\* C19. Persistence failure is swallowed: when the write of save_credentials
\* fails after a refresh or a flow of ensure_authenticated, nothing is raised,
\* the slot holds the new credential, ensure_authenticated runs to its end
\* with the token file not holding that credential, and the handler goes on to
\* its provider calls.
C19_SaveFailureSwallowed ==
    (Ran /\ \E j \in AuthIdx : last.log[j].e = "save_failed")
        => /\ Authenticated
           /\ credentials # None /\ heap[credentials] # EntryCred
           /\ \A b \in At("build") : last.log[b].cur # None /\ ~last.log[b].filed
           /\ ReadsMail => Has("list")
           /\ ReadsMail => tokenFile # to_json(heap[credentials])

\* a flow whose credential could not be written, and the messages read on it
C19_Witness ==
    /\ Ran
    /\ \E f \in At("flow") : f + 1 \in AuthIdx /\ last.log[f + 1].e = "save_failed"
    /\ Has("get")
    /\ tokenFile # to_json(heap[credentials])

\* a send_email run that passed ensure_authenticated and the key check
SendRun ==
    /\ last.op = "call_tool"
    /\ last.name = "send_email"
    /\ ~Malformed(last.name, last.args)
    /\ Authenticated

\* the events of the handler after ensure_authenticated
BodyIdx == {i \in Idx : \E b \in At("build") : b < i}

\* the refresh of line 288 got RefreshError, or found no refresh token
SendRefreshDeclined ==
    \/ \E i \in BodyIdx : last.log[i].e = "refresh_rejected"
    \/ /\ \E i \in BodyIdx : last.log[i].e = "refresh_credentials"
       /\ \A i \in BodyIdx : last.log[i].e # "refresh"

\* C20 as claimed. The refresh before a send does not gate the send: when it
\* is rejected or the credential has no refresh token, the send call is still
\* issued, with the credential the run already had; when it fails with another
\* error, no send call is issued and error content is returned; the send step
\* never starts the OAuth flow.
C20_SendIssuedAfterDeclinedRefresh ==
    /\ (SendRun /\ SendRefreshDeclined)
          => /\ Has("send")
             /\ \A i \in At("send"), b \in At("build") :
                   last.log[i].cur = last.log[b].cur
    /\ (SendRun /\ last.caught = "TransportError")
          => ~Has("send") /\ last.result = "error_content"
    /\ SendRun => \A i \in BodyIdx : last.log[i].e # "flow"

\* C20 as amended. As claimed, except that after a declined refresh the send
\* call is issued only when create_message has built the message: when
\* create_message raises, no send call is issued and error content is returned.
C20_DeclinedRefreshDoesNotGate ==
    /\ (SendRun /\ SendRefreshDeclined)
          => /\ Has("send") \/ (last.caught \in CreateErrors /\ last.result = "error_content")
             /\ Has("send") <=> last.caught \in {"none", "HttpError"}
             /\ \A i \in At("send"), b \in At("build") :
                   last.log[i].cur = last.log[b].cur
    /\ (SendRun /\ last.caught = "TransportError")
          => ~Has("send") /\ last.result = "error_content"
    /\ SendRun => \A i \in BodyIdx : last.log[i].e # "flow"

\* a send issued after the refresh of line 288 was rejected
C20_Witness ==
    /\ SendRun
    /\ \E i \in BodyIdx : last.log[i].e = "refresh_rejected"
    /\ Has("send")
    /\ last.result = "content"

\* C13. An authentication failure is fatal only for the operation it happens
\* in: the handler run that follows one whose ensure_authenticated raised goes
\* through the lifecycle again (it loads the token file if the slot is empty,
\* refreshes an expired credential that holds a refresh token, starts the
\* OAuth flow where authorization is needed and the client-secret file
\* exists), and its ensure_authenticated completes if the flow returns.
C13_FailureNotSticky ==
    (Ran /\ past.failed)
        => /\ last.pre.credentials = None
                => Len(last.log) >= 1 /\ last.log[1].e = "load"
           /\ (EntryCred # NoCred /\ Expired(EntryCred, last.pre.now)
                  /\ EntryCred.refresh_token)
                => \E j \in AuthIdx : last.log[j].e = "refresh"
           /\ (NeedsAuthorization /\ last.pre.secret)
                => \E f \in AuthIdx : last.log[f].e = "flow"
           /\ \A f \in At("flow") : f < Len(last.log) => Authenticated

\* after a run that failed to authenticate, a run in which the flow returned
\* a credential and the messages were listed
C13_Witness ==
    /\ Ran
    /\ past.failed
    /\ Has("flow")
    /\ Authenticated
    /\ Has("list")

\* C15. Persistence survives a crash: when the process is restarted after a
\* refresh or a flow has succeeded, the first ensure_authenticated of the new
\* process loads the credential the old process held from the token file and,
\* while that credential is unexpired, completes without the OAuth flow.
C15_CredentialSurvivesRestart ==
    (Ran /\ past.crashed # NoCred /\ Valid(past.crashed, last.pre.now))
        => /\ Len(last.log) >= 1 /\ last.log[1].e = "load"
           /\ EntryCred = past.crashed
           /\ Authenticated
           /\ \A i \in AuthIdx : last.log[i].e # "flow"

\* both tasks' requests came while the credential was expired or absent, and
\* both tasks found it so at their check
BothSawLapsed ==
    \A t \in Tasks :
        tasks.of[t].lapsed /\ tasks.of[t].seen \in {"expired", "absent"}

BothDid(a) == \A t \in Tasks : a \in tasks.of[t].did

\* no task's check falls between another task's check and the end of that
\* task's sequence
Serialized ==
    \A i \in 1..(Len(tasks.trace) - 1) :
        tasks.trace[i].e = "check"
            => tasks.trace[i + 1] = Mark(tasks.trace[i].t, "end")

\* task t's sequence ended before task u's check
Before(t, u) ==
    \E i \in DOMAIN tasks.trace, j \in DOMAIN tasks.trace :
        i < j /\ tasks.trace[i] = Mark(t, "end") /\ tasks.trace[j] = Mark(u, "check")

\* C11 as claimed. Access to the credential slot is serialized: of two
\* requests in flight together that both came while the credential was
\* expired or absent, never both find it so and both refresh, or both start
\* the OAuth flow, in their ensure_authenticated.
C11_NeverBothRefresh ==
    BothSawLapsed => ~BothDid("refresh") /\ ~BothDid("flow")

\* C11 as amended. The check-to-write sequences of requests in flight
\* together do not interleave.  A task whose check comes after another task's
\* ensure_authenticated has completed, with the clock where it was, finds the
\* credential valid and neither refreshes nor starts the flow in its own
\* ensure_authenticated.  No ensure_authenticated refreshes or starts the
\* flow unless its check found the credential expired or absent.  The only
\* refresh made whatever the check found is that of line 288, in a send_email
\* that passed validation after its ensure_authenticated completed.
C11_SequencesDoNotInterleave ==
    /\ Serialized
    /\ \A t \in Tasks, u \in Tasks :
          (Before(t, u) /\ tasks.of[t].authed /\ tasks.of[t].at = tasks.of[u].at)
              => tasks.of[u].seen = "valid" /\ tasks.of[u].did = {}
    /\ \A t \in Tasks :
          tasks.of[t].did # {} => tasks.of[t].seen \in {"expired", "absent"}
    /\ \A t \in Tasks :
          tasks.of[t].again => tasks.of[t].sends /\ tasks.of[t].authed

\* two send_email requests that came while the credential was expired: the
\* first task refreshed it in its ensure_authenticated, the second found it
\* valid there and did nothing, and made only the refresh of line 288
C11_Witness ==
    /\ \A t \in Tasks : tasks.of[t].pc = "done" /\ tasks.of[t].lapsed
    /\ \E t \in Tasks, u \in Tasks :
          /\ tasks.of[t].did = {"refresh"}
          /\ tasks.of[t].authed
          /\ tasks.of[u].seen = "valid"
          /\ tasks.of[u].did = {}
          /\ tasks.of[u].sends /\ tasks.of[u].again
          /\ tasks.trace = <<Mark(t, "check"), Mark(t, "end"),
                             Mark(u, "check"), Mark(u, "end")>>

====
